---- MODULE Spec2Model ----
(***************************************************************************)
(* Model of s3_client.py: the "s3_client" logger facility (setup_logging,  *)
(* get_logger) and the S3Client wrapper (construction and its five         *)
(* operations) over a boto3 client, the object store and the local         *)
(* filesystem.                                                             *)
(*                                                                         *)
(* Python strings that the code inspects (keys, prefixes, paths) are       *)
(* sequences of one-character strings; opaque strings (bucket names,       *)
(* credentials, levels) are TLA+ strings.                                  *)
(***************************************************************************)
EXTENDS Integers, Sequences, FiniteSets, TLC

VARIABLES
    logger,        \* the logging.getLogger("s3_client") object: level, handlers
    _logger,       \* module global _logger: None or the name of the logger
    lastSetup,     \* arguments of the most recent setup_logging run (or None)
    explicitSetup, \* arguments of the most recent setup_logging call made by a caller
    env,           \* the process environment read by os.getenv
    client,        \* the S3Client instance under observation (or None)
    ctor,          \* the arguments and environment of its construction (or None)
    store,         \* the object store: bucket name -> objects in key order
    dirs,          \* local filesystem: the directories that exist
    files,         \* local filesystem: path -> bytes of the regular files
    last           \* the last call made: operation, arguments, outcome, log calls, SDK requests

vars == <<logger, _logger, lastSetup, explicitSetup, env, client, ctor, store,
          dirs, files, last>>

----------------------------------------------------------------------------
(* Python values *)

None == "None"
\* None where a str (a sequence of characters) is expected
NoneS == <<"None">>

\* None where an object (a record) is expected
NoneObj == [none |-> TRUE]

Truthy(x) == x # None /\ x # ""
TruthyS(s) == s # NoneS /\ s # <<>>

\* Python's `a or b`
Or(a, b) == IF Truthy(a) THEN a ELSE b
OrS(a, b) == IF TruthyS(a) THEN a ELSE b

Min(a, b) == IF a <= b THEN a ELSE b

StartsWith(s, p) == Len(p) <= Len(s) /\ SubSeq(s, 1, Len(p)) = p

RECURSIVE FindFrom(_, _, _)
\* least index >= i at which d occurs in s, 0 when there is none (str.find)
FindFrom(s, d, i) ==
    IF i + Len(d) - 1 > Len(s) THEN 0
    ELSE IF SubSeq(s, i, i + Len(d) - 1) = d THEN i
    ELSE FindFrom(s, d, i + 1)

RECURSIVE Flatten(_)
Flatten(ss) == IF ss = <<>> THEN <<>> ELSE Head(ss) \o Flatten(Tail(ss))

----------------------------------------------------------------------------
(* pathlib.Path (PurePosixPath): a path is the sequence of its parts, the  *)
(* root "/" being the first part of an absolute path.                      *)

Root == <<"/">>
Dot == <<".">>

RECURSIVE SplitSlash(_, _)
\* s.split("/"): cur is the component being read
SplitSlash(s, cur) ==
    IF s = <<>> THEN <<cur>>
    ELSE IF Head(s) = "/" THEN <<cur>> \o SplitSlash(Tail(s), <<>>)
    ELSE SplitSlash(Tail(s), Append(cur, Head(s)))

IsPart(c) == c # <<>> /\ c # Dot

\* Path(s): empty and "." components are dropped, ".." is kept
PathOf(s) ==
    (IF s # <<>> /\ Head(s) = "/" THEN <<Root>> ELSE <<>>)
        \o SelectSeq(SplitSlash(s, <<>>), IsPart)

IsAbsolute(p) == p # <<>> /\ p[1] = Root

\* Path.name
PathName(p) ==
    IF p = <<>> \/ p = <<Root>> THEN <<>> ELSE p[Len(p)]

\* Path.parent
PathParent(p) ==
    IF p = <<>> \/ p = <<Root>> THEN p ELSE SubSeq(p, 1, Len(p) - 1)

\* p / s for a str s
PathJoin(p, s) ==
    IF IsAbsolute(PathOf(s)) THEN PathOf(s) ELSE p \o PathOf(s)

RECURSIVE JoinParts(_)
JoinParts(p) ==
    IF p = <<>> THEN <<>>
    ELSE IF Len(p) = 1 THEN p[1]
    ELSE p[1] \o <<"/">> \o JoinParts(Tail(p))

\* str(path)
PathStr(p) ==
    IF p = <<>> THEN Dot
    ELSE IF IsAbsolute(p) THEN Root \o JoinParts(Tail(p))
    ELSE JoinParts(p)

\* the path and its ancestors, down to but excluding the working directory / root
Ancestors(p) ==
    {SubSeq(p, 1, n) : n \in 1..Len(p)} \ {<<Root>>}

----------------------------------------------------------------------------
(* Local filesystem *)

FreshDirs == {<<>>, <<Root>>}
FreshFiles == <<>>

IsFile(p) == p \in DOMAIN files

\* Path.mkdir(parents=True, exist_ok=True) with the regular files fs and the directories
\* ds: fails when the path or one of its ancestors is a regular file, otherwise
\* creates what is missing
MkdirFails(fs, p) == \E a \in Ancestors(p) : a \in DOMAIN fs
MkdirP(ds, p) == ds \cup Ancestors(p)

\* the file table fs after bytes b are written to path p
WriteFile(fs, p, b) ==
    [q \in (DOMAIN fs) \cup {p} |-> IF q = p THEN b ELSE fs[q]]

----------------------------------------------------------------------------
(* Logger facility *)

LoggerName == "s3_client"

ModuleDir == <<Root, <<"a", "p", "p">>>>
LOG_DIR == ModuleDir \o <<(<<"l", "o", "g", "s">>)>>
LOG_FILE == LOG_DIR \o <<(<<"s", "3", "_", "c", "l", "i", "e", "n", "t", ".", "l", "o", "g">>)>>

DefaultLevel == "INFO"
DefaultMaxBytes == 5242880
DefaultBackupCount == 3

\* a logger not yet configured, as logging.getLogger creates it
FreshLogger == [level |-> "NOTSET", handlers |-> <<>>]

SetupArgs(level, log_to_file, log_to_console, max_bytes, backup_count) ==
    [level |-> level, log_to_file |-> log_to_file, log_to_console |-> log_to_console,
     max_bytes |-> max_bytes, backup_count |-> backup_count]

DefaultSetupArgs ==
    SetupArgs(DefaultLevel, TRUE, TRUE, DefaultMaxBytes, DefaultBackupCount)

FileHandler(a) ==
    [kind |-> "file", level |-> a.level, maxBytes |-> a.max_bytes,
     backupCount |-> a.backup_count, path |-> LOG_FILE]

ConsoleHandler(a) == [kind |-> "console", level |-> a.level]

\* mutant: the handlers of an earlier call are kept
HandlersKept(lg) == lg

\* logger.handlers.clear()
HandlersCleared(lg) == [lg EXCEPT !.handlers = <<>>]

\* the logger after setup_logging(a)
LoggerAfterSetup(lg, a) ==
    LET l1 == HandlersCleared([lg EXCEPT !.level = a.level])
        l2 == IF a.log_to_file
              THEN [l1 EXCEPT !.handlers = Append(@, FileHandler(a))]
              ELSE l1
    IN  IF a.log_to_console
        THEN [l2 EXCEPT !.handlers = Append(@, ConsoleHandler(a))]
        ELSE l2

\* the filesystem after setup_logging(a): LOG_DIR.mkdir and the handler opening LOG_FILE
DirsAfterSetup(a) == IF a.log_to_file THEN MkdirP(dirs, LOG_DIR) ELSE dirs
FilesAfterSetup(a) ==
    IF a.log_to_file /\ ~IsFile(LOG_FILE) THEN WriteFile(files, LOG_FILE, <<>>) ELSE files

\* the body of setup_logging, on every variable it touches
RunSetupLogging(a) ==
    /\ logger' = LoggerAfterSetup(logger, a)
    /\ dirs' = DirsAfterSetup(a)
    /\ files' = FilesAfterSetup(a)
    /\ lastSetup' = a

\* a caller's setup_logging(level, log_to_file, log_to_console, max_bytes, backup_count)
SetupLogging(a) ==
    /\ RunSetupLogging(a)
    /\ explicitSetup' = a
    /\ last' = [op |-> "setup_logging", args |-> a, ret |-> LoggerName]
    /\ UNCHANGED <<_logger, env, client, ctor, store>>

\* mutant: get_logger configures the logger on every call
NeedsSetupAlways(g) == TRUE

\* `if _logger is None`
NeedsSetup(g) == g = None

\* the body of get_logger, on every variable it touches
RunGetLogger ==
    IF NeedsSetup(_logger)
    THEN RunSetupLogging(DefaultSetupArgs) /\ _logger' = LoggerName
    ELSE UNCHANGED <<logger, dirs, files, lastSetup, _logger>>

\* a caller's get_logger()
GetLogger ==
    /\ RunGetLogger
    /\ last' = [op |-> "get_logger", args |-> <<>>, ret |-> _logger']
    /\ UNCHANGED <<explicitSetup, env, client, ctor, store>>

----------------------------------------------------------------------------
(* S3Client construction *)

EnvNames == {"AWS_REGION", "AWS_ACCESS_KEY_ID", "AWS_SECRET_ACCESS_KEY", "AWS_ENDPOINT_URL"}

DefaultRegion == "ru-central1"

\* os.getenv(name, default)
Getenv(e, name, default) == IF e[name] = None THEN default ELSE e[name]

\* a change of the process environment (os.environ, or load_dotenv of another file)
SetEnv(name, value) ==
    /\ env' = [env EXCEPT ![name] = value]
    /\ last' = [op |-> "setenv", args |-> <<name, value>>]
    /\ UNCHANGED <<logger, _logger, lastSetup, explicitSetup, client, ctor, store,
                   dirs, files>>

CtorArgs(bucket, region_name, aws_access_key_id, aws_secret_access_key, endpoint_url, lg) ==
    [logger |-> lg, bucket |-> bucket, region_name |-> region_name,
     aws_access_key_id |-> aws_access_key_id,
     aws_secret_access_key |-> aws_secret_access_key,
     endpoint_url |-> endpoint_url]

\* mutant: the environment wins over the constructor argument
ResolvedEnvFirst(arg, fromEnv) == Or(fromEnv, arg)

\* `arg or os.getenv(...)`
Resolved(arg, fromEnv) == Or(arg, fromEnv)

\* session_kwargs: boto3.Session(**session_kwargs)
SessionKwargs(a, e) ==
    LET region == Resolved(a.region_name, Getenv(e, "AWS_REGION", DefaultRegion))
        ak == Resolved(a.aws_access_key_id, Getenv(e, "AWS_ACCESS_KEY_ID", None))
        sk == Resolved(a.aws_secret_access_key, Getenv(e, "AWS_SECRET_ACCESS_KEY", None))
    IN  IF Truthy(ak) /\ Truthy(sk)
        THEN [region_name |-> region, aws_access_key_id |-> ak,
              aws_secret_access_key |-> sk]
        ELSE [region_name |-> region]

\* client_kwargs: session.client("s3", **client_kwargs)
ClientKwargs(a, e) ==
    LET ep == Resolved(a.endpoint_url, Getenv(e, "AWS_ENDPOINT_URL", None))
    IN  IF Truthy(ep) THEN [endpoint_url |-> ep] ELSE <<>>

\* the instance __init__ builds
NewClient(a, e, lg) ==
    [bucket |-> a.bucket, log |-> lg, _session |-> SessionKwargs(a, e),
     _client |-> ClientKwargs(a, e)]

\* S3Client(bucket, ...): sdkOk tells whether boto3 builds the session and the client
Construct(a, sdkOk) ==
    /\ IF a.logger # None
       THEN UNCHANGED <<logger, dirs, files, lastSetup, _logger>>
       ELSE RunGetLogger
    /\ IF sdkOk
       THEN /\ client' = NewClient(a, env, IF a.logger # None THEN a.logger ELSE _logger')
            /\ ctor' = [args |-> a, env |-> env]
            /\ last' = [op |-> "S3Client", args |-> a,
                        outcome |-> [ok |-> TRUE], logs |-> <<"info">>]
       ELSE /\ UNCHANGED <<client, ctor>>
            /\ last' = [op |-> "S3Client", args |-> a,
                        outcome |-> [ok |-> FALSE, exc |-> [class |-> "BotoCoreError",
                                                            code |-> "construction"]],
                        logs |-> <<>>]
    /\ UNCHANGED <<explicitSetup, env, store>>

----------------------------------------------------------------------------
(* The object store and the boto3 client, as the wrapper sees them *)

Ok(v) == [ok |-> TRUE, ret |-> v]
Raise(e) == [ok |-> FALSE, exc |-> e]

ClientErr(code) == [class |-> "ClientError", code |-> code]
NetworkErr == [class |-> "EndpointConnectionError", code |-> "network"]
OSErr(code) == [class |-> "OSError", code |-> code]

\* what goes wrong at the backend during a call
Faults == {"none", "AccessDenied", "Network"}
FaultExc(f) == IF f = "AccessDenied" THEN ClientErr("AccessDenied") ELSE NetworkErr

ObjectsOf(st, bucket) == IF bucket \in DOMAIN st THEN st[bucket] ELSE <<>>

Lookup(st, bucket, key) ==
    LET os == SelectSeq(ObjectsOf(st, bucket), LAMBDA o : o.Key = key)
    IN  IF os = <<>> THEN NoneObj ELSE os[1]

\* HeadObject
Sdk_head_object(st, req, fault) ==
    IF fault # "none" THEN Raise(FaultExc(fault))
    ELSE IF Lookup(st, req.Bucket, req.Key) = NoneObj THEN Raise(ClientErr("404"))
    ELSE LET o == Lookup(st, req.Bucket, req.Key)
         IN  Ok([ContentLength |-> Len(o.Body), LastModified |-> o.LastModified,
                 ContentType |-> o.ContentType, ETag |-> o.ETag])

\* GetObject; ret.Body is what response["Body"].read() returns
Sdk_get_object(st, req, fault) ==
    IF fault # "none" THEN Raise(FaultExc(fault))
    ELSE IF Lookup(st, req.Bucket, req.Key) = NoneObj THEN Raise(ClientErr("NoSuchKey"))
    ELSE LET o == Lookup(st, req.Bucket, req.Key)
         IN  Ok([Body |-> o.Body, ContentLength |-> Len(o.Body), ETag |-> o.ETag])

\* the managed transfer fetches the object in ranges of ChunkSize bytes
ChunkSize == 4

RECURSIVE Chunks(_, _)
Chunks(b, n) ==
    IF Len(b) <= n THEN <<b>>
    ELSE <<SubSeq(b, 1, n)>> \o Chunks(SubSeq(b, n + 1, Len(b)), n)

Transfer(b) == Flatten(Chunks(b, ChunkSize))

\* client.download_file(Bucket, Key, Filename): HeadObject, then the ranges written to
\* Filename; ds are the directories that exist. On success path and data say what is
\* written where.
Sdk_download_file(st, ds, req, fault) ==
    LET head == Sdk_head_object(st, req, fault)
        dst == PathOf(req.Filename)
    IN  IF ~head.ok THEN head
        ELSE IF dst \in ds THEN Raise(OSErr("IsADirectoryError"))
        ELSE IF PathParent(dst) \notin ds THEN Raise(OSErr("FileNotFoundError"))
        ELSE [ok |-> TRUE, ret |-> None, path |-> dst,
              data |-> Transfer(Lookup(st, req.Bucket, req.Key).Body)]

PresignMethods == {"get_object", "put_object", "head_object"}

\* client.generate_presigned_url: signs locally, no request is sent
Sdk_generate_presigned_url(req) ==
    IF req.ClientMethod \notin PresignMethods
    THEN Raise([class |-> "UnknownClientMethodError", code |-> req.ClientMethod])
    ELSE Ok([Bucket |-> req.Bucket, Key |-> req.Key, ExpiresIn |-> req.ExpiresIn,
             Method |-> req.ClientMethod])

\* ListObjectsV2 -----------------------------------------------------------

\* the entry of an object in a page's Contents
RawEntry(o) ==
    LET base == [Key |-> o.Key, LastModified |-> o.LastModified, ETag |-> o.ETag]
    IN  IF o.sizeListed THEN ("Size" :> Len(o.Body)) @@ base ELSE base

\* the common prefix an object's key rolls up into, <<>> when it is listed itself
RollUp(key, prefix, delimiter) ==
    LET at == IF delimiter = <<>> THEN 0 ELSE FindFrom(key, delimiter, Len(prefix) + 1)
    IN  IF at = 0 THEN <<>> ELSE SubSeq(key, 1, at + Len(delimiter) - 1)

RECURSIVE ListingItems(_, _, _, _)
\* the keys and common prefixes of a listing, in key order; seen is the last common
\* prefix produced
ListingItems(objs, prefix, delimiter, seen) ==
    IF objs = <<>> THEN <<>>
    ELSE LET o == Head(objs)
             cp == RollUp(o.Key, prefix, delimiter)
         IN  IF ~StartsWith(o.Key, prefix)
             THEN ListingItems(Tail(objs), prefix, delimiter, seen)
             ELSE IF cp = <<>>
             THEN <<[kind |-> "key", entry |-> RawEntry(o)]>>
                      \o ListingItems(Tail(objs), prefix, delimiter, seen)
             ELSE IF cp = seen
             THEN ListingItems(Tail(objs), prefix, delimiter, seen)
             ELSE <<[kind |-> "prefix", entry |-> [Prefix |-> cp]]>>
                      \o ListingItems(Tail(objs), prefix, delimiter, cp)

EntriesOf(items, kind) ==
    LET sel == SelectSeq(items, LAMBDA it : it.kind = kind)
    IN  [i \in 1..Len(sel) |-> sel[i].entry]

\* one response page: Contents and CommonPrefixes are present only when not empty
PageOf(items, truncated) ==
    LET base == [KeyCount |-> Len(items), IsTruncated |-> truncated]
        c == EntriesOf(items, "key")
        p == EntriesOf(items, "prefix")
        withC == IF c = <<>> THEN base ELSE ("Contents" :> c) @@ base
    IN  IF p = <<>> THEN withC ELSE ("CommonPrefixes" :> p) @@ withC

RECURSIVE PagesOf(_, _)
PagesOf(items, n) ==
    IF Len(items) <= n THEN <<PageOf(items, FALSE)>>
    ELSE <<PageOf(SubSeq(items, 1, n), TRUE)>> \o PagesOf(SubSeq(items, n + 1, Len(items)), n)

\* paginator.paginate(**req): the pages it yields before the request numbered faultAt
\* fails (when a fault is injected and that request is reached)
Sdk_paginate(st, req, fault, faultAt) ==
    LET pages == PagesOf(ListingItems(ObjectsOf(st, req.Bucket), req.Prefix,
                                      req.Delimiter, <<>>),
                         Min(req.MaxKeys, 1000))
    IN  IF fault # "none" /\ faultAt <= Len(pages)
        THEN [ok |-> FALSE, exc |-> FaultExc(fault), pages |-> SubSeq(pages, 1, faultAt - 1),
              sent |-> faultAt]
        ELSE IF req.Bucket \notin DOMAIN st
        THEN [ok |-> FALSE, exc |-> ClientErr("NoSuchBucket"), pages |-> <<>>, sent |-> 1]
        ELSE [ok |-> TRUE, ret |-> None, pages |-> pages, sent |-> Len(pages)]

----------------------------------------------------------------------------
(* S3Client operations. Each XxxCall is the method body as a function of the  *)
(* instance, the store, the filesystem and the arguments: outcome (returned   *)
(* value or raised exception), log calls made, SDK requests issued, and what  *)
(* the SDK call itself returned or raised.                                    *)

\* `except ClientError`
IsClientError(e) == e.class = "ClientError"

\* the log calls of `except ClientError as e: self.log.exception(...); raise`
LogsOnRaise(e) == IF IsClientError(e) THEN <<"exception">> ELSE <<>>

Request(api, params) == [api |-> api, params |-> params]

\* dict.get(name)
Get(d, name) == IF name \in DOMAIN d THEN d[name] ELSE None

\* list_objects --------------------------------------------------------------

\* mutant: every bucket is listed from its start, whatever the prefix
ListParamsNoPrefix(self, prefix, max_keys, delimiter) ==
    [Bucket |-> self.bucket, Prefix |-> <<>>, MaxKeys |-> max_keys,
     Delimiter |-> OrS(delimiter, <<>>)]

ListParams(self, prefix, max_keys, delimiter) ==
    [Bucket |-> self.bucket, Prefix |-> prefix, MaxKeys |-> max_keys,
     Delimiter |-> OrS(delimiter, <<>>)]

ListEntry(obj) ==
    [Key |-> obj.Key,
     Size |-> IF "Size" \in DOMAIN obj THEN obj.Size ELSE 0,
     LastModified |-> Get(obj, "LastModified"),
     ETag |-> Get(obj, "ETag")]

\* `for obj in page.get("Contents", [])`
PageEntries(page) ==
    LET c == IF "Contents" \in DOMAIN page THEN page.Contents ELSE <<>>
    IN  [i \in 1..Len(c) |-> ListEntry(c[i])]

\* mutant: only the first page is consumed
ListResultFirstPage(pages) == IF pages = <<>> THEN <<>> ELSE PageEntries(pages[1])

\* `for page in paginator.paginate(...)`
ListResult(pages) == Flatten([i \in 1..Len(pages) |-> PageEntries(pages[i])])

ListCall(self, st, prefix, max_keys, delimiter, fault, faultAt) ==
    LET params == ListParams(self, prefix, max_keys, delimiter)
        r == Sdk_paginate(st, params, fault, faultAt)
    IN  [outcome |-> IF r.ok THEN Ok(ListResult(r.pages)) ELSE Raise(r.exc),
         logs |-> <<"debug">> \o (IF r.ok THEN <<"info">> ELSE LogsOnRaise(r.exc)),
         requests |-> [i \in 1..r.sent |-> Request("ListObjectsV2", params)],
         sdk |-> r]

\* download_file -------------------------------------------------------------

\* mutant: a given local_path is ignored
DownloadDestDirOnly(key, local_path, local_dir) ==
    PathJoin(IF TruthyS(local_dir) THEN PathOf(local_dir) ELSE PathOf(Dot),
             PathName(PathOf(key)))

\* the destination: local_path, else local_dir / Path(key).name
DownloadDest(key, local_path, local_dir) ==
    IF TruthyS(local_path) THEN PathOf(local_path)
    ELSE PathJoin(IF TruthyS(local_dir) THEN PathOf(local_dir) ELSE PathOf(Dot),
                  PathName(PathOf(key)))

\* mutant: the object is requested by the file name of its key
DownloadParamsByName(self, key, dst) ==
    [Bucket |-> self.bucket, Key |-> PathName(PathOf(key)), Filename |-> PathStr(dst)]

DownloadParams(self, key, dst) ==
    [Bucket |-> self.bucket, Key |-> key, Filename |-> PathStr(dst)]

DownloadCall(self, st, ds, fs, key, local_path, local_dir, fault) ==
    LET dst == DownloadDest(key, local_path, local_dir)
        parent == PathParent(dst)
        ds1 == MkdirP(ds, parent)
        params == DownloadParams(self, key, dst)
        r == Sdk_download_file(st, ds1, params, fault)
        fs1 == IF r.ok THEN WriteFile(fs, r.path, r.data) ELSE fs
    IN  IF MkdirFails(fs, parent)
        THEN [outcome |-> Raise(OSErr("FileExistsError")), logs |-> <<>>,
              requests |-> <<>>, sdk |-> NoneObj, dirs |-> ds, files |-> fs]
        ELSE [outcome |-> IF ~r.ok THEN Raise(r.exc)
                          ELSE IF dst \notin DOMAIN fs1
                          THEN Raise(OSErr("FileNotFoundError"))
                          ELSE Ok(dst),
              logs |-> <<"info">> \o (IF ~r.ok THEN LogsOnRaise(r.exc)
                                      ELSE IF dst \notin DOMAIN fs1 THEN <<>>
                                      ELSE <<"info">>),
              requests |-> <<Request("download_file", params)>>,
              sdk |-> r, dirs |-> ds1, files |-> fs1]

\* download_file_to_buffer ---------------------------------------------------

\* mutant: the bucket is a fixed name, not the instance's
ObjectParamsFixedBucket(self, key) == [Bucket |-> "test-bucket", Key |-> key]

\* Bucket=self.bucket, Key=key
ObjectParams(self, key) == [Bucket |-> self.bucket, Key |-> key]

BufferCall(self, st, key, fault) ==
    LET params == ObjectParams(self, key)
        r == Sdk_get_object(st, params, fault)
    IN  [outcome |-> IF r.ok THEN Ok(r.ret.Body) ELSE Raise(r.exc),
         logs |-> <<"debug">> \o (IF r.ok THEN <<"info">> ELSE LogsOnRaise(r.exc)),
         requests |-> <<Request("GetObject", params)>>,
         sdk |-> r]

\* get_presigned_url ---------------------------------------------------------

PresignParams(self, key, expiration, method) ==
    [ClientMethod |-> method, Bucket |-> self.bucket, Key |-> key,
     ExpiresIn |-> expiration]

PresignCall(self, key, expiration, method) ==
    LET params == PresignParams(self, key, expiration, method)
        r == Sdk_generate_presigned_url(params)
    IN  [outcome |-> IF r.ok THEN Ok(r.ret) ELSE Raise(r.exc),
         logs |-> <<"debug">> \o (IF r.ok THEN <<"info">> ELSE LogsOnRaise(r.exc)),
         requests |-> <<Request("generate_presigned_url", params)>>,
         sdk |-> r]

\* get_object_metadata -------------------------------------------------------

Metadata(response) ==
    [ContentLength |-> Get(response, "ContentLength"),
     LastModified |-> Get(response, "LastModified"),
     ContentType |-> Get(response, "ContentType"),
     ETag |-> Get(response, "ETag")]

MetadataCall(self, st, key, fault) ==
    LET params == ObjectParams(self, key)
        r == Sdk_head_object(st, params, fault)
    IN  [outcome |-> IF r.ok THEN Ok(Metadata(r.ret)) ELSE Raise(r.exc),
         logs |-> <<"debug">> \o (IF r.ok THEN <<"info">> ELSE LogsOnRaise(r.exc)),
         requests |-> <<Request("HeadObject", params)>>,
         sdk |-> r]

\* the actions ---------------------------------------------------------------

\* what a call leaves in `last`
Called(op, args, fault, c) ==
    [op |-> op, args |-> args, fault |-> fault, outcome |-> c.outcome,
     logs |-> c.logs, requests |-> c.requests, sdk |-> c.sdk]

ListObjects(prefix, max_keys, delimiter, fault, faultAt) ==
    /\ client # NoneObj
    /\ last' = Called("list_objects",
                      [prefix |-> prefix, max_keys |-> max_keys, delimiter |-> delimiter,
                       faultAt |-> faultAt],
                      fault,
                      ListCall(client, store, prefix, max_keys, delimiter, fault, faultAt))
    /\ UNCHANGED <<logger, _logger, lastSetup, explicitSetup, env, client, ctor, store,
                   dirs, files>>

DownloadFile(key, local_path, local_dir, fault) ==
    /\ client # NoneObj
    /\ LET c == DownloadCall(client, store, dirs, files, key, local_path, local_dir, fault)
       IN  /\ dirs' = c.dirs
           /\ files' = c.files
           /\ last' = Called("download_file",
                             [key |-> key, local_path |-> local_path,
                              local_dir |-> local_dir],
                             fault, c)
    /\ UNCHANGED <<logger, _logger, lastSetup, explicitSetup, env, client, ctor, store>>

DownloadFileToBuffer(key, fault) ==
    /\ client # NoneObj
    /\ last' = Called("download_file_to_buffer", [key |-> key], fault,
                      BufferCall(client, store, key, fault))
    /\ UNCHANGED <<logger, _logger, lastSetup, explicitSetup, env, client, ctor, store,
                   dirs, files>>

GetPresignedUrl(key, expiration, method) ==
    /\ client # NoneObj
    /\ last' = Called("get_presigned_url",
                      [key |-> key, expiration |-> expiration, method |-> method],
                      "none", PresignCall(client, key, expiration, method))
    /\ UNCHANGED <<logger, _logger, lastSetup, explicitSetup, env, client, ctor, store,
                   dirs, files>>

GetObjectMetadata(key, fault) ==
    /\ client # NoneObj
    /\ last' = Called("get_object_metadata", [key |-> key], fault,
                      MetadataCall(client, store, key, fault))
    /\ UNCHANGED <<logger, _logger, lastSetup, explicitSetup, env, client, ctor, store,
                   dirs, files>>

----------------------------------------------------------------------------
(* Initial state: a fresh process, before any call *)

NoEnv == [n \in EnvNames |-> None]

InitWith(e, st) ==
    /\ logger = FreshLogger
    /\ _logger = None
    /\ lastSetup = NoneObj
    /\ explicitSetup = NoneObj
    /\ env = e
    /\ client = NoneObj
    /\ ctor = NoneObj
    /\ store = st
    /\ dirs = FreshDirs
    /\ files = FreshFiles
    /\ last = [op |-> "start"]

----------------------------------------------------------------------------
(* Inputs: keys, buckets and store contents *)

K_a_txt == <<"a", ".", "t", "x", "t">>
K_uploads == <<"u", "p", "l", "o", "a", "d", "s", "/">>
K_uploads_a_txt == K_uploads \o K_a_txt
K_uploads_b_txt == K_uploads \o <<"b", ".", "t", "x", "t">>
K_z_txt == <<"z", ".", "t", "x", "t">>
K_nope == <<"n", "o", "p", "e">>

P_tmp_out == <<"/", "t", "m", "p", "/", "o", "u", "t">>
P_out == <<"o", "u", "t">>
P_out_f == <<"o", "u", "t", "/", "f">>

Obj(key, body, etag, sizeListed) ==
    [Key |-> key, Body |-> body, LastModified |-> "2024-01-01T00:00:00Z", ETag |-> etag,
     ContentType |-> "text/plain", sizeListed |-> sizeListed]

Bytes5 == <<1, 2, 3, 4, 5>>
Bytes10 == <<10, 11, 12, 13, 14, 15, 16, 17, 18, 19>>

Buckets == {"test-bucket", "other-bucket"}

\* the bucket of the specification's example, and another bucket with another a.txt
ExampleStore ==
    [b \in Buckets |->
        IF b = "test-bucket"
        THEN <<Obj(K_a_txt, Bytes5, "e1", TRUE), Obj(K_uploads_b_txt, Bytes10, "e2", TRUE)>>
        ELSE <<Obj(K_a_txt, <<7, 7>>, "e3", TRUE)>>]

\* a bucket with a folder marker, two objects sharing a file name, and an object whose
\* listing entry carries no Size
DeepStore ==
    [b \in Buckets |->
        IF b = "test-bucket"
        THEN <<Obj(K_a_txt, Bytes5, "e1", TRUE),
               Obj(K_uploads, <<>>, "e4", TRUE),
               Obj(K_uploads_a_txt, <<8, 8, 8>>, "e5", TRUE),
               Obj(K_uploads_b_txt, Bytes10, "e2", TRUE),
               Obj(K_z_txt, <<6>>, "e6", FALSE)>>
        ELSE <<>>]

Stores == {ExampleStore, DeepStore}

StoredKeys == {K_a_txt, K_uploads, K_uploads_a_txt, K_uploads_b_txt, K_z_txt}

DefaultMaxKeys == 1000
DefaultExpiration == 3600

OpNames == {"list_objects", "download_file", "download_file_to_buffer",
            "get_presigned_url", "get_object_metadata"}

PlainCtor(bucket, lg) == CtorArgs(bucket, None, None, None, None, lg)

----------------------------------------------------------------------------
(* Listing *)

MaxKeysBound == 2
MaxFaultAt == 2

MaxPrefixLen == 7

PrefixInputs ==
    {SubSeq(k, 1, Min(n, Len(k))) : k \in StoredKeys, n \in 0..MaxPrefixLen}
        \cup {K_uploads, K_uploads_b_txt, K_nope, <<"u", "p", "/">>}

ListCtorInputs == {PlainCtor(b, "custom") : b \in Buckets}

InitList == \E st \in Stores : InitWith(NoEnv, st)

NextList ==
    \/ \E a \in ListCtorInputs : Construct(a, TRUE)
    \/ \E p \in PrefixInputs, m \in (1..MaxKeysBound) \cup {DefaultMaxKeys},
           d \in {NoneS, <<>>, <<"/">>} :
            ListObjects(p, m, d, "none", 1)
    \/ \E p \in {<<>>, K_uploads}, m \in 1..MaxKeysBound, f \in Faults \ {"none"},
           n \in 1..MaxFaultAt :
            ListObjects(p, m, NoneS, f, n)

SpecList == InitList /\ [][NextList]_vars

ListedOk == last.op = "list_objects" /\ last.outcome.ok

NoDelimiter == last.args.delimiter \in {NoneS, <<>>}

\* C4: every entry list_objects(prefix=p) returns has a key starting with p; with no
\* delimiter every object of the client's bucket whose key starts with p is returned,
\* once; for the example bucket, prefix "uploads/" gives exactly uploads/b.txt, size 10.
C4_PrefixFilter ==
    ListedOk =>
        LET ret == last.outcome.ret
            p == last.args.prefix
            objs == store[ctor.args.bucket]
        IN  /\ \A i \in 1..Len(ret) : StartsWith(ret[i].Key, p)
            /\ NoDelimiter =>
                   \A j \in 1..Len(objs) :
                       StartsWith(objs[j].Key, p) =>
                           Cardinality({i \in 1..Len(ret) : ret[i].Key = objs[j].Key}) = 1
            /\ (NoDelimiter /\ store = ExampleStore /\ ctor.args.bucket = "test-bucket"
                    /\ p = K_uploads) =>
                   /\ Len(ret) = 1
                   /\ ret[1].Key = K_uploads_b_txt
                   /\ ret[1].Size = 10

\* C4 witness: the example listing has been made.
C4_Witness ==
    /\ ListedOk /\ NoDelimiter
    /\ store = ExampleStore /\ ctor.args.bucket = "test-bucket"
    /\ last.args.prefix = K_uploads
    /\ Len(last.outcome.ret) = 1

RawContents(page) == IF "Contents" \in DOMAIN page THEN page["Contents"] ELSE <<>>

\* C9: a successful list_objects returns the raw entries of all pages the paginator
\* yielded, concatenated in page order and in their order within each page, one entry
\* per raw entry with its Key, LastModified and ETag and its Size, 0 when the raw entry
\* has none; pages without Contents add nothing; no page holds more than max_keys
\* entries, while the number of pages is not bounded by max_keys.
C9_ConcatenationOfPages ==
    ListedOk =>
        LET ret == last.outcome.ret
            pages == last.sdk.pages
            raw == Flatten([i \in 1..Len(pages) |-> RawContents(pages[i])])
        IN  /\ Len(ret) = Len(raw)
            /\ \A i \in 1..Len(raw) :
                   /\ ret[i].Key = raw[i].Key
                   /\ ret[i].LastModified = raw[i].LastModified
                   /\ ret[i].ETag = raw[i].ETag
                   /\ ret[i].Size = (IF "Size" \in DOMAIN raw[i] THEN raw[i].Size ELSE 0)
                   /\ DOMAIN ret[i] = {"Key", "Size", "LastModified", "ETag"}
            /\ \A i \in 1..Len(pages) : Len(RawContents(pages[i])) <= last.args.max_keys
            /\ Len(last.requests) = Len(pages)

\* C9 witness: a listing of more entries than max_keys, over several pages of which one
\* has no Contents, with an entry whose Size was absent.
C9_Witness ==
    /\ ListedOk
    /\ Len(last.outcome.ret) > last.args.max_keys
    /\ \E i \in 1..Len(last.sdk.pages) : "Contents" \notin DOMAIN last.sdk.pages[i]
    /\ \E i \in 1..Len(last.outcome.ret) :
           last.outcome.ret[i].Key = K_z_txt /\ last.outcome.ret[i].Size = 0

----------------------------------------------------------------------------
(* Downloads *)

DownloadKeys == {K_a_txt, K_uploads_a_txt, K_uploads_b_txt, K_nope}

DownloadCtorInputs == {PlainCtor("test-bucket", "custom")}

InitDownload == \E st \in Stores : InitWith(NoEnv, st)

NextDownload ==
    \/ \E a \in DownloadCtorInputs : Construct(a, TRUE)
    \/ \E k \in DownloadKeys, lp \in {NoneS, P_out_f}, ld \in {NoneS, P_tmp_out} :
            DownloadFile(k, lp, ld, "none")
    \/ \E lp \in {NoneS, <<>>} : DownloadFile(K_uploads, lp, P_tmp_out, "none")
    \/ \E f \in Faults \ {"none"} : DownloadFile(K_a_txt, NoneS, NoneS, f)
    \/ \E k \in DownloadKeys \cup {K_uploads}, f \in {"none", "AccessDenied"} :
            DownloadFileToBuffer(k, f)

SpecDownload == InitDownload /\ [][NextDownload]_vars

DownloadedOk == last.op = "download_file" /\ last.outcome.ok

\* C5: the bytes of the file a successful download_file(key) wrote are the bytes
\* download_file_to_buffer(key) returns for that key, and the bytes a successful
\* download_file_to_buffer(key) returned are those download_file(key) writes.
C5_FileEqualsBuffer ==
    /\ DownloadedOk =>
           LET b == BufferCall(client, store, last.args.key, "none").outcome
           IN  b.ok /\ files[last.outcome.ret] = b.ret
    /\ (last.op = "download_file_to_buffer" /\ last.outcome.ok) =>
           LET d == DownloadCall(client, store, FreshDirs, FreshFiles, last.args.key,
                                 NoneS, NoneS, "none")
           IN  d.outcome.ok /\ d.files[d.outcome.ret] = last.outcome.ret

\* C5 witness: an object longer than one transfer range, sharing its file name with no
\* other, has been downloaded to a file.
C5_Witness ==
    /\ DownloadedOk
    /\ last.args.key = K_uploads_b_txt
    /\ files[last.outcome.ret] = Bytes10

RECURSIVE StripSlashes(_)
StripSlashes(s) ==
    IF s # <<>> /\ s[Len(s)] = "/" THEN StripSlashes(SubSeq(s, 1, Len(s) - 1)) ELSE s

RECURSIVE AfterLastSlash(_)
AfterLastSlash(s) ==
    IF s = <<>> \/ s[Len(s)] = "/" THEN <<>>
    ELSE Append(AfterLastSlash(SubSeq(s, 1, Len(s) - 1)), s[Len(s)])

\* the basename of a key: what follows its last "/", trailing "/" aside
Basename(key) == AfterLastSlash(StripSlashes(key))

\* C6: a successful download_file returns local_path when one is given, and otherwise
\* local_dir (the current directory when none is given) joined with the basename of the
\* key; the parent directories of that path exist and the file there holds the object's
\* content. For key a.txt of 5 bytes and local_dir /tmp/out that is /tmp/out/a.txt
\* with 5 bytes.
C6_Destination ==
    DownloadedOk =>
        LET a == last.args
            ret == last.outcome.ret
            given(x) == x # NoneS /\ x # <<>>
            dir == IF given(a.local_dir) THEN PathOf(a.local_dir) ELSE <<>>
            expected == IF given(a.local_path) THEN PathOf(a.local_path)
                        ELSE Append(dir, Basename(a.key))
        IN  /\ ret = expected
            /\ \A n \in 0..(Len(ret) - 1) : SubSeq(ret, 1, n) \in dirs
            /\ ret \in DOMAIN files
            /\ \E j \in 1..Len(store[client.bucket]) :
                   /\ store[client.bucket][j].Key = a.key
                   /\ store[client.bucket][j].Body = files[ret]
            /\ (a.key = K_a_txt /\ ~given(a.local_path) /\ a.local_dir = P_tmp_out) =>
                   /\ ret = <<Root, <<"t", "m", "p">>, <<"o", "u", "t">>, K_a_txt>>
                   /\ Len(files[ret]) = 5

\* C6 witness: the example download into /tmp/out has been made.
C6_Witness ==
    /\ DownloadedOk
    /\ last.args.key = K_a_txt /\ last.args.local_path = NoneS
    /\ last.args.local_dir = P_tmp_out
    /\ <<Root, <<"t", "m", "p">>, <<"o", "u", "t">>>> \in dirs
    /\ files[<<Root, <<"t", "m", "p">>, <<"o", "u", "t">>, K_a_txt>>] = Bytes5

----------------------------------------------------------------------------
(* The client over any sequence of operations and backend failures *)

PlainCtorInputs == {PlainCtor(b, lg) : b \in Buckets, lg \in {None, "custom"}}

Init == InitWith(NoEnv, ExampleStore)

Next ==
    \/ \E a \in PlainCtorInputs, sdkOk \in BOOLEAN : Construct(a, sdkOk)
    \/ \E p \in {<<>>, K_uploads}, m \in {1, DefaultMaxKeys}, f \in Faults,
           n \in 1..MaxFaultAt :
            ListObjects(p, m, NoneS, f, n)
    \/ \E k \in {K_a_txt, K_nope}, lp \in {NoneS, P_out, P_out_f}, f \in Faults :
            DownloadFile(k, lp, NoneS, f)
    \/ \E k \in {K_a_txt, K_nope}, f \in Faults : DownloadFileToBuffer(k, f)
    \/ \E k \in {K_a_txt, K_nope}, m \in {"get_object", "no_such_method"} :
            GetPresignedUrl(k, DefaultExpiration, m)
    \/ \E k \in {K_a_txt, K_nope}, f \in Faults : GetObjectMetadata(k, f)

Spec == Init /\ [][Next]_vars

\* access-denied, not-found and network failures, as the SDK raises them
IsBackendFailure(e) == e.class \in {"ClientError", "EndpointConnectionError"}

SdkFailed(l) == l.op \in OpNames /\ l.sdk # NoneObj /\ ~l.sdk.ok

\* C2: when the SDK call of an operation raises a backend failure (access denied, not
\* found, network failure), the operation makes exactly one error log call, as its last
\* log call, raises that same error, and has issued no SDK request after the failed one.
C2_FailureLoggedOnceAndReraised ==
    (SdkFailed(last) /\ IsBackendFailure(last.sdk.exc)) =>
        /\ last.outcome = Raise(last.sdk.exc)
        /\ Cardinality({i \in 1..Len(last.logs) : last.logs[i] = "exception"}) = 1
        /\ last.logs[Len(last.logs)] = "exception"
        /\ last.op = "list_objects" => Len(last.requests) = last.sdk.sent
        /\ last.op # "list_objects" => Len(last.requests) = 1

\* the outcome of the call recorded in l, made by instance self on store st with the
\* directories ds and the files fs
OutcomeOf(l, self, st, ds, fs) ==
    LET a == l.args
    IN  CASE l.op = "list_objects" ->
                ListCall(self, st, a.prefix, a.max_keys, a.delimiter, l.fault,
                         a.faultAt).outcome
          [] l.op = "download_file" ->
                DownloadCall(self, st, ds, fs, a.key, a.local_path, a.local_dir,
                             l.fault).outcome
          [] l.op = "download_file_to_buffer" -> BufferCall(self, st, a.key, l.fault).outcome
          [] l.op = "get_presigned_url" ->
                PresignCall(self, a.key, a.expiration, a.method).outcome
          [] l.op = "get_object_metadata" -> MetadataCall(self, st, a.key, l.fault).outcome

\* what no operation may do to the instance, and the bucket its requests must name
FrameKept ==
    /\ client' = client
    /\ ctor' = ctor
    /\ \A i \in 1..Len(last'.requests) :
           last'.requests[i].params.Bucket = ctor.args.bucket

\* C8 (as claimed): no operation changes the client's bucket, session, SDK client or
\* logger; every SDK request names the bucket given at construction; and the outcome of
\* an operation is the one its arguments and the backend's state (store and injected
\* failure) give, whatever was called before.
C8_OutcomeFromArgsAndBackend ==
    [][last'.op \in OpNames =>
        /\ FrameKept
        /\ last'.outcome = OutcomeOf(last', NewClient(ctor.args, ctor.env, client.log),
                                     store, FreshDirs, FreshFiles)]_vars

\* C8 (amended): the same, the outcome of download_file depending also on the local
\* filesystem as the call finds it.
C8_OutcomeFromArgsBackendAndLocalFiles ==
    [][last'.op \in OpNames =>
        /\ FrameKept
        /\ last'.outcome = OutcomeOf(last', NewClient(ctor.args, ctor.env, client.log),
                                     store, dirs, files)]_vars

\* C8 witness: a download_file of an object the bucket holds failed, with the backend
\* answering, on a path an earlier download_file left behind.
C8_Witness ==
    /\ last.op = "download_file"
    /\ ~last.outcome.ok /\ last.outcome.exc.class = "OSError"
    /\ last.fault = "none" /\ last.args.key = K_a_txt
    /\ client.bucket = ctor.args.bucket

----------------------------------------------------------------------------
(* The logger facility and the callers of get_logger *)

LevelInputs == {"DEBUG", "INFO", "ERROR"}
MaxBytesInputs == {DefaultMaxBytes, 1024}
BackupCountInputs == {DefaultBackupCount, 0}

SetupInputs ==
    {SetupArgs(l, f, c, m, b) :
        l \in LevelInputs, f \in BOOLEAN, c \in BOOLEAN,
        m \in MaxBytesInputs, b \in BackupCountInputs}

LoggingCtorInputs == {PlainCtor("test-bucket", lg) : lg \in {None, "custom"}}

InitLogging == InitWith(NoEnv, <<>>)

NextLogging ==
    \/ \E a \in SetupInputs : SetupLogging(a)
    \/ GetLogger
    \/ \E a \in LoggingCtorInputs, sdkOk \in BOOLEAN : Construct(a, sdkOk)

SpecLogging == InitLogging /\ [][NextLogging]_vars

HandlerKinds(a) ==
    (IF a.log_to_file THEN <<"file">> ELSE <<>>)
        \o (IF a.log_to_console THEN <<"console">> ELSE <<>>)

KindsOf(lg) == [i \in 1..Len(lg.handlers) |-> lg.handlers[i].kind]

\* C1: once setup_logging has run, the handlers attached to the "s3_client" logger are
\* exactly those the most recent run asked for: one file handler iff log_to_file, one
\* console handler iff log_to_console, and nothing left over from earlier runs.
C1_HandlersOfLastSetup ==
    lastSetup # NoneObj =>
        /\ KindsOf(logger) = HandlerKinds(lastSetup)
        /\ \A i \in 1..Len(logger.handlers) : logger.handlers[i].level = lastSetup.level
        /\ logger.level = lastSetup.level

\* C1 witness: a second explicit setup_logging asked for fewer sinks than the run before
\* it left attached, and only the requested console handler is attached.
C1_Witness ==
    /\ last.op = "setup_logging"
    /\ ~last.args.log_to_file /\ last.args.log_to_console
    /\ IsFile(LOG_FILE)
    /\ KindsOf(logger) = <<"console">>

\* C3: get_logger is a lazily created singleton. A call made while _logger is None runs
\* setup_logging with the default options and stores the logger; a call made later
\* returns that same logger and leaves its level and handlers as they were.
C3_LazySingleton ==
    [][last'.op = "get_logger" =>
        /\ last'.ret = LoggerName
        /\ _logger' = LoggerName
        /\ IF _logger = None
           THEN /\ logger'.level = DefaultLevel
                /\ KindsOf(logger') = <<"file", "console">>
                /\ lastSetup' = DefaultSetupArgs
           ELSE logger' = logger /\ lastSetup' = lastSetup]_vars

\* C3 witness: a later get_logger call returned the logger while it carried a
\* configuration other than the default one.
C3_Witness ==
    /\ last.op = "get_logger"
    /\ _logger = LoggerName
    /\ logger.level = "DEBUG"
    /\ KindsOf(logger) = <<"console">>

\* C10: after an explicit setup_logging(level, sinks), a following get_logger call, or
\* the construction of an S3Client without a logger, leaves the logger with that level
\* and those sinks.
C10_ExplicitSetupPreserved ==
    (explicitSetup # NoneObj /\ last.op \in {"get_logger", "S3Client"}) =>
        /\ logger.level = explicitSetup.level
        /\ KindsOf(logger) = HandlerKinds(explicitSetup)

----------------------------------------------------------------------------
(* Construction from arguments and environment *)

ArgValues == {None, "", "arg"}
KeyArgValues == {None, "arg"}
EnvValues == {None, "env"}

CtorInputs ==
    {CtorArgs("test-bucket", r, ak, sk, ep, "custom") :
        r \in ArgValues, ak \in KeyArgValues, sk \in KeyArgValues, ep \in ArgValues}

InitConfig == InitWith(NoEnv, ExampleStore)

NextConfig ==
    \/ \E n \in EnvNames, v \in EnvValues : SetEnv(n, v)
    \/ \E a \in CtorInputs : Construct(a, TRUE)
    \/ GetObjectMetadata(K_a_txt, "none")

SpecConfig == InitConfig /\ [][NextConfig]_vars

\* the value the session / client was built with, None when it was not passed
UsedBySession(name) ==
    IF name \in DOMAIN client._session THEN client._session[name] ELSE None
UsedByClient(name) ==
    IF name \in DOMAIN client._client THEN client._client[name] ELSE None

\* the value a supplied (non-empty) argument or else the environment gives
Precedence(arg, fromEnv) == IF arg # None /\ arg # "" THEN arg ELSE fromEnv

\* C7 (as claimed): each of region, access key id, secret access key and endpoint URL
\* the session/client is built with is the explicit argument when one is supplied and
\* the environment's value (for the region, else the built-in default) otherwise, as
\* the environment stood at construction.
C7_EachValueByPrecedence ==
    client # NoneObj =>
        LET a == ctor.args
            e == ctor.env
        IN  /\ UsedBySession("region_name")
                   = Precedence(a.region_name, Getenv(e, "AWS_REGION", DefaultRegion))
            /\ UsedBySession("aws_access_key_id")
                   = Precedence(a.aws_access_key_id, e["AWS_ACCESS_KEY_ID"])
            /\ UsedBySession("aws_secret_access_key")
                   = Precedence(a.aws_secret_access_key, e["AWS_SECRET_ACCESS_KEY"])
            /\ UsedByClient("endpoint_url")
                   = Precedence(a.endpoint_url, e["AWS_ENDPOINT_URL"])

\* C7 (amended): region and endpoint URL follow that precedence (an empty endpoint is
\* not passed); the access key id and the secret access key follow it too, but are
\* passed to the session only as a pair, when both resolve to non-empty values, and
\* otherwise neither is passed. The values are those of construction time: a later
\* change of the environment does not reach the client.
C7_PrecedenceWithPairedCredentials ==
    client # NoneObj =>
        LET a == ctor.args
            e == ctor.env
            ak == Precedence(a.aws_access_key_id, e["AWS_ACCESS_KEY_ID"])
            sk == Precedence(a.aws_secret_access_key, e["AWS_SECRET_ACCESS_KEY"])
            ep == Precedence(a.endpoint_url, e["AWS_ENDPOINT_URL"])
            paired == ak # None /\ ak # "" /\ sk # None /\ sk # ""
        IN  /\ UsedBySession("region_name")
                   = Precedence(a.region_name, Getenv(e, "AWS_REGION", DefaultRegion))
            /\ UsedBySession("aws_access_key_id") = (IF paired THEN ak ELSE None)
            /\ UsedBySession("aws_secret_access_key") = (IF paired THEN sk ELSE None)
            /\ UsedByClient("endpoint_url") = (IF ep # "" THEN ep ELSE None)

\* C7 witness: a client built with an explicit region and an explicit key pair while the
\* environment held other values, and the environment has changed since.
C7_Witness ==
    /\ client # NoneObj
    /\ last.op = "get_object_metadata"
    /\ ctor.args.region_name = "arg" /\ ctor.env["AWS_REGION"] = "env"
    /\ ctor.args.aws_access_key_id = "arg" /\ ctor.env["AWS_ACCESS_KEY_ID"] = "env"
    /\ ctor.args.aws_secret_access_key = None /\ ctor.env["AWS_SECRET_ACCESS_KEY"] = "env"
    /\ env["AWS_REGION"] = None
    /\ client._session = [region_name |-> "arg", aws_access_key_id |-> "arg",
                          aws_secret_access_key |-> "env"]

====
